---- MODULE Spec2Model ----
(***************************************************************************)
(* A model of midna's requirement-resolution engine: the requirement-file  *)
(* reader (parser.py), the discovery orchestrator (discovery.py), the      *)
(* module classifier (package_classifier.py) and the part of the CLI       *)
(* (core.py, uninstaller.py) that calls the reader.                        *)
(*                                                                         *)
(* A Python string is a sequence of symbols.  A symbol is one character    *)
(* ("-", "r", " ", ">", ...) or an indivisible chunk of a file name        *)
(* ("requirements", ".txt"); the string operations (strip, startswith,     *)
(* endswith, in, split, lower) are computed on these sequences.            *)
(***************************************************************************)
EXTENDS Integers, Sequences, FiniteSets, TLC

VARIABLES
    files,           \* the file system
    listing,         \* the order in which the root directory yields its entries
    call,            \* the operation invoked and its path argument
    pc,              \* the position in the operation
    ret,             \* what read_requirements returned or raised
    exit_code,       \* what main returned
    req_files,       \* auto_discover_requirements: req_files
    tried,           \* the sources auto_discover_requirements has consulted
    discovered,      \* the set of names given to classify_packages
    classification,  \* what classify_packages returned
    found,           \* what auto_discover_requirements returned
    sys_modules,     \* sys.modules of the running interpreter
    rerun,           \* what a second classify_packages call returned
    python_files,    \* analyze_project_imports: python_files
    all_imports,     \* analyze_project_imports: all_imports
    commands,        \* the commands handed to subprocess.run, in order
    parsed_name,     \* what parse_package_name returned
    oracle,          \* what each pip list printed, in order
    checked,         \* what check_installed_packages returned
    announced        \* _handle_uninstall: the "Will uninstall" list

vars ==
    <<files, listing, call, pc, ret, exit_code, req_files, tried, discovered,
      classification, found, sys_modules, rerun, python_files, all_imports,
      commands, parsed_name, oracle, checked, announced>>

classifierVars == <<sys_modules, rerun>>

scanVars == <<python_files, all_imports>>

reconcileVars == <<oracle, checked, announced>>

pipVars == <<commands, parsed_name, reconcileVars>>

discoveryVars == <<req_files, tried, discovered, classification, found>>

(***************************************************************************)
(* Bounds of the model                                                     *)
(***************************************************************************)
\* the longest requirement file the reader is given at top level
MaxLines == 3
\* the largest set of module names classify_packages is given
MaxModules == 3
\* the longest project.dependencies array of a manifest
MaxItems == 2
\* the largest number of groups under project.optional-dependencies
MaxGroups == 2
\* the longest package name of a specifier, in symbols
MaxNameLen == 2
\* the longest specifier that is not built from a name, in symbols
MaxSpecLen == 4
\* the longest package list install_packages is given
MaxPackages == 2
\* the interpreter's recursion limit (sys.getrecursionlimit()), counted in
\* nested read_requirements calls; it exceeds the longest acyclic include
\* chain of the model's file systems
RecursionLimit == 5

(***************************************************************************)
(* str operations                                                          *)
(***************************************************************************)
Whitespace == {" ", "\n", "\t"}

SetMin(S) == CHOOSE x \in S : \A y \in S : x <= y

SetMax(S) == CHOOSE x \in S : \A y \in S : x >= y

\* str.strip()
StripId(s) == s

Strip(s) ==
    LET keep == {i \in 1..Len(s) : s[i] \notin Whitespace}
    IN  IF keep = {} THEN <<>> ELSE SubSeq(s, SetMin(keep), SetMax(keep))

\* str.startswith(prefix)
StartsWith(s, prefix) ==
    Len(s) >= Len(prefix) /\ SubSeq(s, 1, Len(prefix)) = prefix

\* str.endswith(suffix)
EndsWith(s, suffix) ==
    Len(s) >= Len(suffix) /\ SubSeq(s, Len(s) - Len(suffix) + 1, Len(s)) = suffix

\* `sub in s` for a non-empty sub
Contains(s, sub) ==
    \E i \in 1..(Len(s) - Len(sub) + 1) : SubSeq(s, i, i + Len(sub) - 1) = sub

(***************************************************************************)
(* os.path                                                                 *)
(***************************************************************************)
Slashes(p) == {i \in 1..Len(p) : p[i] = "/"}

\* os.path.isabs
IsAbs(p) == Len(p) > 0 /\ p[1] = "/"

\* os.path.dirname
Dirname(p) ==
    IF Slashes(p) = {} THEN <<>>
    ELSE IF SetMax(Slashes(p)) = 1 THEN <<"/">>
    ELSE SubSeq(p, 1, SetMax(Slashes(p)) - 1)

\* os.path.basename
Basename(p) ==
    IF Slashes(p) = {} THEN p ELSE SubSeq(p, SetMax(Slashes(p)) + 1, Len(p))

\* os.path.join(a, b)
Join(a, b) ==
    IF IsAbs(b) \/ a = <<>> THEN b
    ELSE IF a[Len(a)] = "/" THEN a \o b
    ELSE a \o <<"/">> \o b

(***************************************************************************)
(* The file system.  files maps a path to a file record:                   *)
(*   kind   "text" (a regular file readable as UTF-8 text), "unreadable"   *)
(*          (a regular file whose open or decode fails), "dir" (a          *)
(*          directory)                                                     *)
(*   lines  what readlines() returns                                       *)
(*   doc    what tomllib.load returns for the file: doc.valid is FALSE     *)
(*          when the text is not TOML                                      *)
(*   py     what ast.parse returns for the file: py.ok is FALSE when the   *)
(*          text is not Python (SyntaxError); py.imports are its import    *)
(*          statements, each the dotted module named by `import X` or      *)
(*          `from X import ...` (<<>> for `from . import ...`)             *)
(* A path outside DOMAIN files does not exist.                             *)
(***************************************************************************)
Val(isList, items) == [list |-> isList, items |-> items]

NoVal == Val(FALSE, <<>>)

NotToml == [valid |-> FALSE, project_is_table |-> FALSE, optional_is_table |-> FALSE,
            build_is_table |-> FALSE, dependencies |-> NoVal,
            optional |-> <<>>, requires |-> NoVal]

\* a document whose project, project.optional-dependencies and build-system
\* are tables or are absent
Manifest(deps, optional, requires) ==
    [valid |-> TRUE, project_is_table |-> TRUE, optional_is_table |-> TRUE,
     build_is_table |-> TRUE, dependencies |-> deps,
     optional |-> optional, requires |-> requires]

\* a document in which project, project.optional-dependencies or
\* build-system is a string or an array
Misshapen(project, optional, build) ==
    [valid |-> TRUE, project_is_table |-> project, optional_is_table |-> optional,
     build_is_table |-> build, dependencies |-> NoVal,
     optional |-> <<>>, requires |-> NoVal]

NotPython == [ok |-> FALSE, imports |-> <<>>]

TextFile(lines) ==
    [kind |-> "text", lines |-> lines, doc |-> NotToml, py |-> NotPython]

TomlFile(lines, doc) ==
    [kind |-> "text", lines |-> lines, doc |-> doc, py |-> NotPython]

PyFile(lines, stmts) ==
    [kind |-> "text", lines |-> lines, doc |-> NotToml,
     py |-> [ok |-> TRUE, imports |-> stmts]]

Unreadable ==
    [kind |-> "unreadable", lines |-> <<>>, doc |-> NotToml, py |-> NotPython]

Directory == [kind |-> "dir", lines |-> <<>>, doc |-> NotToml, py |-> NotPython]

\* open() succeeds and the text decodes
IsReadable(f) == f.kind = "text"

\* Path.is_file
IsFile(fs, p) == p \in DOMAIN fs /\ fs[p].kind # "dir"

\* os.path.exists
Exists(fs, p) == p \in DOMAIN fs

(***************************************************************************)
(* Results of a call: status "ok" with the returned list, or the name of   *)
(* the exception that left the call.  warnings are the "Included           *)
(* requirements file not found" lines printed so far (they stay printed    *)
(* when an exception propagates).                                          *)
(***************************************************************************)
Ok(packages, warnings) ==
    [status |-> "ok", packages |-> packages, warnings |-> warnings]

Raise(exception, warnings) ==
    [status |-> exception, packages |-> <<>>, warnings |-> warnings]

(***************************************************************************)
(* parser.py: parse_toml_requirements                                      *)
(***************************************************************************)
BootstrapNames == {<<"pip">>, <<"setuptools">>, <<"wheel">>}

VersionOperators == {<<">", "=">>, <<"=", "=">>, <<"<", "=">>, <<"<">>, <<">">>}

\* lines 138-143 without the condition
KeepsEverything(pkg) == TRUE

\* the filter of lines 138-143
IsRequirementEntry(pkg) ==
    pkg \in BootstrapNames \/ \E op \in VersionOperators : Contains(pkg, op)

\* `if x: if isinstance(x, list): packages.extend(x)`
ListItems(v) == IF v.list THEN v.items ELSE <<>>

RECURSIVE OptionalItems(_)
\* the loop over project.optional-dependencies, groups in declaration order
OptionalItems(groups) ==
    IF groups = <<>> THEN <<>>
    ELSE ListItems(Head(groups)) \o OptionalItems(Tail(groups))

ParseTomlRequirements(fs, file_path) ==
    LET f == fs[file_path]
    IN  IF ~IsReadable(f) THEN Raise("OSError", <<>>)
        ELSE IF ~f.doc.valid THEN Raise("TOMLDecodeError", <<>>)
        ELSE IF ~f.doc.project_is_table THEN Raise("AttributeError", <<>>)
        ELSE IF ~f.doc.optional_is_table THEN Raise("AttributeError", <<>>)
        ELSE IF ~f.doc.build_is_table THEN Raise("AttributeError", <<>>)
        ELSE LET packages == ListItems(f.doc.dependencies)
                             \o OptionalItems(f.doc.optional)
                             \o ListItems(f.doc.requires)
             IN  Ok(SelectSeq(packages, IsRequirementEntry), <<>>)

(***************************************************************************)
(* parser.py: parse_package_name                                           *)
(***************************************************************************)
\* s.split(sep)[0]
SplitFirst(s, sep) ==
    LET at == {i \in 1..(Len(s) - Len(sep) + 1) : SubSeq(s, i, i + Len(sep) - 1) = sep}
    IN  IF at = {} THEN s ELSE SubSeq(s, 1, SetMin(at) - 1)

\* lines 162-163
RemoveComment(package_spec) ==
    IF Contains(package_spec, <<"#">>)
    THEN Strip(SplitFirst(package_spec, <<"#">>))
    ELSE package_spec

\* the symbols of [a-zA-Z0-9_-]
NameSymbols == {"pkg", "Pkg", "1", "_", "-"}

\* the symbols of [a-zA-Z0-9_,-]
ExtrasSymbols == NameSymbols \cup {","}

\* the length of the longest run of symbols of S in s from position i
RunLength(s, i, S) ==
    LET stops == {j \in i..Len(s) : s[j] \notin S}
    IN  IF stops = {} THEN Len(s) - i + 1 ELSE SetMin(stops) - i

\* line 167: what (?:\[[a-zA-Z0-9_,-]+\])? matches after a name of n symbols
ExtrasLength(s, n) ==
    IF n < Len(s) /\ s[n + 1] = "["
    THEN LET k == RunLength(s, n + 2, ExtrasSymbols)
         IN  IF k > 0 /\ n + 2 + k <= Len(s) /\ s[n + 2 + k] = "]" THEN k + 2 ELSE 0
    ELSE 0

\* lines 167-168: match.group(1), <<>> when the pattern does not match
Group1(s) ==
    LET n == RunLength(s, 1, NameSymbols)
    IN  IF n = 0 THEN <<>> ELSE SubSeq(s, 1, n + ExtrasLength(s, n))

\* line 171 without the split: the extras are left in
KeepExtras(group) == group

\* line 171: .split("[")[0]
WithoutExtras(group) == SplitFirst(group, <<"[">>)

\* line 174, in the order of the list
Separators ==
    << <<">", "=">>, <<"<", "=">>, <<"=", "=">>, <<"!", "=">>, <<">">>, <<"<">>,
       <<"~", "=">> >>

\* lines 174-178
Fallback(s) ==
    LET present == {i \in 1..Len(Separators) : Contains(s, Separators[i])}
    IN  IF present = {} THEN Strip(s)
        ELSE Strip(SplitFirst(s, Separators[SetMin(present)]))

\* lines 149-178
ParsePackageName(package_spec) ==
    LET s == RemoveComment(package_spec)
    IN  IF Group1(s) # <<>> THEN WithoutExtras(Group1(s)) ELSE Fallback(s)

(***************************************************************************)
(* parser.py: read_requirements                                            *)
(***************************************************************************)
\* line 54: `not line or line.startswith("#")`
IsBlankOrCommentNoHash(line) == line = <<>>

IsBlankOrComment(line) == line = <<>> \/ StartsWith(line, <<"#">>)

\* line 58: line.startswith("-r ")
IsInclude(line) == StartsWith(line, <<"-", "r", " ">>)

\* line 80: line.startswith("-")
IsPipOptionNever(line) == FALSE

IsPipOption(line) == StartsWith(line, <<"-">>)

\* lines 59-64: the path an include line names
IncludeFile(file_path, line) ==
    LET include_file == Strip(SubSeq(line, 4, Len(line)))
    IN  IF IsAbs(include_file) THEN include_file
        ELSE Join(Dirname(file_path), include_file)

\* line 70: `except FileNotFoundError` around the recursive call
CaughtNothing(status) == FALSE

CaughtByInclude(status) == status = "FileNotFoundError"

RECURSIVE ReadRequirements(_, _, _)
RECURSIVE ReadLines(_, _, _, _, _, _, _)

\* lines 49-88: the loop over lines[i..], with packages and the warnings
\* printed so far; depth is the number of nested read_requirements calls
ReadLines(fs, file_path, lines, i, packages, warnings, depth) ==
    IF i > Len(lines) THEN Ok(packages, warnings)
    ELSE LET line == Strip(lines[i])
         IN  IF IsBlankOrComment(line)
             THEN ReadLines(fs, file_path, lines, i + 1, packages, warnings, depth)
             ELSE IF IsInclude(line)
             THEN LET include_file == IncludeFile(file_path, line)
                      included == ReadRequirements(fs, include_file, depth + 1)
                  IN  IF included.status = "ok"
                      THEN ReadLines(fs, file_path, lines, i + 1,
                                     packages \o included.packages,
                                     warnings \o included.warnings, depth)
                      ELSE IF CaughtByInclude(included.status)
                      THEN ReadLines(fs, file_path, lines, i + 1, packages,
                                     (warnings \o included.warnings)
                                        \o <<include_file>>, depth)
                      ELSE Raise(included.status, warnings \o included.warnings)
             ELSE IF IsPipOption(line)
             THEN ReadLines(fs, file_path, lines, i + 1, packages, warnings, depth)
             ELSE ReadLines(fs, file_path, lines, i + 1,
                            Append(packages, line), warnings, depth)

\* lines 14-88.  The `except ImportError` of lines 37-39 is not reachable
\* from parse_toml_requirements, which imports nothing.
ReadRequirements(fs, file_path, depth) ==
    IF depth > RecursionLimit THEN Raise("RecursionError", <<>>)
    ELSE IF ~Exists(fs, file_path) THEN Raise("FileNotFoundError", <<>>)
    ELSE IF EndsWith(file_path, <<".toml">>) THEN ParseTomlRequirements(fs, file_path)
    ELSE IF ~IsReadable(fs[file_path]) THEN Raise("OSError", <<>>)
    ELSE ReadLines(fs, file_path, fs[file_path].lines, 1, <<>>, <<>>, depth)

(***************************************************************************)
(* The file systems the reader is run on                                   *)
(***************************************************************************)
A == <<"a", ".txt">>

B == <<"b", ".txt">>

SubC == <<"sub", "/", "c", ".txt">>

SubE == <<"sub", "/", "e", ".txt">>

Missing == <<"m", ".txt">>

T == <<"t", ".toml">>

\* the lines a top-level requirement file is made of
LinePool ==
    { <<" ", "\t", "\n">>,
      <<" ", "#", "p", "\n">>,
      <<" ", "p", ">", "=", "1", " ", "\n">>,
      <<"q", " ", "#", "c", "\n">>,
      <<"-", "r", " ", "b", ".txt", "\n">>,
      <<" ", "-", "r", " ", " ", "m", ".txt", "\n">>,
      <<"-", "e", " ", "x", "\n">>,
      <<"-", "r", "\n">> }

SeqsUpTo(S, n) == UNION {[1..k -> S] : k \in 0..n}

BPlain == TextFile(<<<<"b", "1", "\n">>>>)

BMissingInclude ==
    TextFile(<<<<"b", "1", "\n">>, <<"-", "r", " ", "m", ".txt", "\n">>, <<"b", "2">>>>)

BIncludesA == TextFile(<<<<"-", "r", " ", "a", ".txt", "\n">>>>)

BIncludesItself == TextFile(<<<<"b", "1", "\n">>, <<"-", "r", " ", "b", ".txt", "\n">>>>)

BIncludesSubC ==
    TextFile(<<<<"-", "r", " ", "sub", "/", "c", ".txt", "\n">>, <<"b", "2", "\n">>>>)

BIncludesT == TextFile(<<<<"-", "r", " ", "t", ".toml", "\n">>, <<"b", "2", "\n">>>>)

\* what b.txt may be: a plain file, one with a missing include, the two
\* cycles (b -> a -> b and b -> b), a chain into sub/, a manifest include,
\* a directory
BFiles ==
    {BPlain, BMissingInclude, BIncludesA, BIncludesItself, BIncludesSubC,
     BIncludesT, Unreadable}

SubCFile == TextFile(<<<<"c", "1", "\n">>, <<"-", "r", " ", "e", ".txt", "\n">>>>)

SubEFile == TextFile(<<<<"e", "1", "\n">>>>)

TManifest ==
    Manifest(Val(TRUE, <<<<"t", ">", "=", "1">>, <<"cli">>>>), <<>>,
             Val(TRUE, <<<<"setuptools">>>>))

TDocs == {NotToml, TManifest}

\* a file system as a function on the paths that exist
FileSystem(present, a, b, t) ==
    [p \in present |->
        IF p = A THEN a
        ELSE IF p = B THEN b
        ELSE IF p = SubC THEN SubCFile
        ELSE IF p = SubE THEN SubEFile
        ELSE TomlFile(<<>>, t)]

\* the files next to a.txt: none, b.txt of each kind, the chain into sub/
\* with and without its last file
Neighbours ==
    {<<{}, BPlain>>} \cup {<<{B}, b>> : b \in BFiles}
        \cup {<<{B, SubC}, BIncludesSubC>>, <<{B, SubC, SubE}, BIncludesSubC>>}

ReaderFileSystems ==
    { FileSystem({A, T} \cup n[1], TextFile(la), n[2], TManifest) :
        la \in SeqsUpTo(LinePool, MaxLines), n \in Neighbours }

\* file systems with a fixed a.txt, for the calls that are not about its lines
SmallFileSystems ==
    { FileSystem({A, T} \cup n[1], TextFile(la), n[2], t) :
        la \in {<<>>, <<<<"q", "\n">>>>,
                <<<<"p", ">", "=", "1", "\n">>, <<"-", "r", " ", "b", ".txt", "\n">>>>},
        n \in Neighbours, t \in TDocs }

(***************************************************************************)
(* The reader called directly                                              *)
(***************************************************************************)
NoResult == Raise("none", <<>>)

\* no process exit status yet
Running == -1

NoClassification == [stdlib |-> <<>>, project |-> <<>>, third_party |-> <<>>]

NoFound == [packages |-> <<>>, method |-> <<>>]

\* nothing of the discovery has run
DiscoveryIdle ==
    /\ req_files = <<>>
    /\ tried = <<>>
    /\ discovered = {}
    /\ classification = NoClassification
    /\ found = NoFound

\* sys.builtin_module_names and sys.modules of the interpreter at the time
\* package_classifier is imported
BuiltinModuleNames == {<<"sys">>}

SysModules == {<<"os">>, <<"os", ".", "path">>, <<"ast">>, <<"json">>, <<"pip">>}

\* check_installed_packages has not returned
NoCheck == [missing_packages |-> <<>>, already_installed |-> <<>>]

\* no module imported since package_classifier was, nothing scanned, no
\* command run, no specifier parsed, nothing checked and nothing announced
UtilitiesIdle ==
    /\ sys_modules = SysModules
    /\ rerun = NoClassification
    /\ python_files = {}
    /\ all_imports = {}
    /\ commands = <<>>
    /\ parsed_name = <<>>
    /\ oracle = <<>>
    /\ checked = NoCheck
    /\ announced = <<>>

InitRead ==
    /\ \/ /\ files \in ReaderFileSystems
          /\ call \in [op : {"read_requirements"}, path : {A}]
       \/ /\ files \in SmallFileSystems
          /\ call \in [op : {"read_requirements", "check_packages_to_uninstall", "main"},
                       path : {Missing, T, B, A}]
    /\ listing = <<>>
    /\ pc = "start"
    /\ ret = NoResult
    /\ exit_code = Running
    /\ DiscoveryIdle
    /\ UtilitiesIdle

CallReadRequirements ==
    /\ pc = "start"
    /\ call.op = "read_requirements"
    /\ ret' = ReadRequirements(files, call.path, 1)
    /\ pc' = "done"
    /\ UNCHANGED <<files, listing, call, exit_code, discoveryVars>>
    /\ UNCHANGED <<classifierVars, scanVars, pipVars>>

\* uninstaller.py, check_packages_to_uninstall, lines 107-111: the read and
\* the re-raise; with the list read, _check_package_list_to_uninstall follows
CheckPackagesToUninstallRead ==
    /\ pc = "start"
    /\ call.op = "check_packages_to_uninstall"
    /\ ret' = ReadRequirements(files, call.path, 1)
    /\ pc' = IF ret'.status = "ok" THEN "check_package_list" ELSE "raised"
    /\ UNCHANGED <<files, listing, call, exit_code, discoveryVars>>
    /\ UNCHANGED <<classifierVars, scanVars, pipVars>>

\* core.py, main, lines 279-288: the exit status of each exception
AlwaysZero(exception) == 0

ExceptionExit(exception) ==
    IF exception = "FileNotFoundError" THEN 1
    ELSE IF exception = "KeyboardInterrupt" THEN 130
    ELSE 1

\* core.py, main, lines 211-249 for a requirements_file argument that is no
\* .py file: the read, the empty list, and the handlers of lines 279-288;
\* with a non-empty list the install or uninstall step follows
MainReadFile ==
    /\ pc = "start"
    /\ call.op = "main"
    /\ ~EndsWith(call.path, <<".py">>)
    /\ ret' = ReadRequirements(files, call.path, 1)
    /\ IF ret'.status # "ok"
       THEN pc' = "exit" /\ exit_code' = ExceptionExit(ret'.status)
       ELSE IF ret'.packages = <<>>
       THEN pc' = "exit" /\ exit_code' = 0
       ELSE pc' = "reconcile" /\ exit_code' = Running
    /\ UNCHANGED <<files, listing, call, discoveryVars>>
    /\ UNCHANGED <<classifierVars, scanVars, pipVars>>

NextRead == CallReadRequirements \/ CheckPackagesToUninstallRead \/ MainReadFile

SpecRead == InitRead /\ [][NextRead]_vars

(***************************************************************************)
(* What the reader is specified to return, stated without the reader's     *)
(* own helpers                                                             *)
(***************************************************************************)
RECURSIVE TrimLeft(_)
TrimLeft(s) ==
    IF s # <<>> /\ Head(s) \in {" ", "\t", "\n"} THEN TrimLeft(Tail(s)) ELSE s

RECURSIVE TrimRight(_)
TrimRight(s) ==
    IF s # <<>> /\ s[Len(s)] \in {" ", "\t", "\n"}
    THEN TrimRight(SubSeq(s, 1, Len(s) - 1)) ELSE s

Trimmed(s) == TrimRight(TrimLeft(s))

\* a trimmed line that is a direct entry: non-empty, not starting with # or -
IsEntryLine(t) == t # <<>> /\ t[1] \notin {"#", "-"}

\* a trimmed line that is a `-r <path>` directive
IsIncludeLine(t) == Len(t) >= 3 /\ t[1] = "-" /\ t[2] = "r" /\ t[3] = " "

\* the file a `-r` line of the file at path names
TargetOf(path, t) == Join(Dirname(path), Trimmed(SubSeq(t, 4, Len(t))))

IsTextPath(fs, path) ==
    path \in DOMAIN fs /\ fs[path].kind = "text" /\ path[Len(path)] # ".toml"

RECURSIVE SpecEntries(_, _, _)
RECURSIVE SpecEntriesFrom(_, _, _, _)

\* the entries of lines i.. of the text file at path, includes spliced in
SpecEntriesFrom(fs, path, i, fuel) ==
    IF i > Len(fs[path].lines) THEN <<>>
    ELSE LET t == Trimmed(fs[path].lines[i])
             here == IF IsIncludeLine(t)
                     THEN IF TargetOf(path, t) \in DOMAIN fs
                          THEN SpecEntries(fs, TargetOf(path, t), fuel - 1)
                          ELSE <<>>
                     ELSE IF IsEntryLine(t) THEN <<t>> ELSE <<>>
         IN  here \o SpecEntriesFrom(fs, path, i + 1, fuel)

\* the entries of the file at path (fuel bounds the include depth followed)
SpecEntries(fs, path, fuel) ==
    IF fuel = 0 THEN <<>>
    ELSE IF IsTextPath(fs, path) THEN SpecEntriesFrom(fs, path, 1, fuel)
    ELSE ParseTomlRequirements(fs, path).packages

\* the direct entries of the text file at path, in file order
DirectEntries(fs, path) ==
    SelectSeq([i \in 1..Len(fs[path].lines) |-> Trimmed(fs[path].lines[i])],
              IsEntryLine)

\* the `-r` lines of the text file at path, in file order
IncludeLines(fs, path) ==
    SelectSeq([i \in 1..Len(fs[path].lines) |-> Trimmed(fs[path].lines[i])],
              IsIncludeLine)

RECURSIVE IsSubseq(_, _)
\* s is t with some elements left out
IsSubseq(s, t) ==
    IF s = <<>> THEN TRUE
    ELSE IF t = <<>> THEN FALSE
    ELSE IF Head(s) = Head(t) THEN IsSubseq(Tail(s), Tail(t))
    ELSE IsSubseq(s, Tail(t))

\* the include targets of the existing text files
IncludeEdges(fs) ==
    UNION { { <<p, TargetOf(p, Trimmed(fs[p].lines[i]))>> :
                i \in {j \in 1..Len(fs[p].lines) :
                          /\ IsIncludeLine(Trimmed(fs[p].lines[j]))
                          /\ TargetOf(p, Trimmed(fs[p].lines[j])) \in DOMAIN fs} } :
            p \in {q \in DOMAIN fs : IsTextPath(fs, q)} }

RECURSIVE ReachableFrom(_, _)
\* the files reached from the set S by following includes
ReachableFrom(fs, S) ==
    LET next == S \cup {e[2] : e \in {d \in IncludeEdges(fs) : d[1] \in S}}
    IN  IF next = S THEN S ELSE ReachableFrom(fs, next)

\* reading path leads, directly or transitively, into a file that includes
\* itself
IncludesItself(fs, path) ==
    \E p \in ReachableFrom(fs, {path}) :
        p \in ReachableFrom(fs, {e[2] : e \in {d \in IncludeEdges(fs) : d[1] = p}})

ReadDone == pc = "done" /\ call.op = "read_requirements"

\* C1: a plain-text requirement file that is read to the end yields exactly
\* its trimmed non-empty lines that start with neither # nor -, in file
\* order, with the entries of each existing -r include at the place of the
\* -r line.
C1_ReadReturnsEntriesInOrder ==
    (ReadDone /\ ret.status = "ok" /\ IsTextPath(files, call.path))
        => ret.packages = SpecEntries(files, call.path, RecursionLimit)

\* an include of an existing file stands between two direct entries and its
\* entries were returned between them
C1_Witness ==
    /\ ReadDone /\ ret.status = "ok" /\ call.path = A
    /\ B \in DOMAIN files /\ Len(files[A].lines) = 3
    /\ IsEntryLine(Trimmed(files[A].lines[1]))
    /\ IsIncludeLine(Trimmed(files[A].lines[2]))
    /\ TargetOf(A, Trimmed(files[A].lines[2])) = B
    /\ IsEntryLine(Trimmed(files[A].lines[3]))
    /\ Len(ret.packages) >= 3
    /\ ret.packages[1] = Trimmed(files[A].lines[1])
    /\ ret.packages[2] = <<"b", "1">>
    /\ ret.packages[Len(ret.packages)] = Trimmed(files[A].lines[3])

\* the targets of the -r lines of the text file at path that do not exist
MissingTargets(fs, path) ==
    LET lines == IncludeLines(fs, path)
    IN  SelectSeq([i \in 1..Len(lines) |-> TargetOf(path, lines[i])],
                  LAMBDA target : target \notin DOMAIN fs)

\* C2: a -r line whose target does not exist never makes the read of an
\* existing file fail with the not-found error; the read that completes
\* returns every direct entry of the including file in order and has warned
\* once per missing include, and when all of the file's includes are missing
\* the result is exactly its direct entries.
C2_MissingIncludeIsSkipped ==
    (ReadDone /\ IsTextPath(files, call.path)) =>
        /\ ret.status # "FileNotFoundError"
        /\ ret.status = "ok" =>
              /\ IsSubseq(DirectEntries(files, call.path), ret.packages)
              /\ IsSubseq(MissingTargets(files, call.path), ret.warnings)
        /\ Len(MissingTargets(files, call.path)) = Len(IncludeLines(files, call.path))
              => ret = Ok(DirectEntries(files, call.path),
                          MissingTargets(files, call.path))

\* a missing include stands between two direct entries; both were returned
\* and one warning was printed
C2_Witness ==
    /\ ReadDone /\ call.path = A /\ Len(files[A].lines) = 3
    /\ IsEntryLine(Trimmed(files[A].lines[1]))
    /\ IsIncludeLine(Trimmed(files[A].lines[2]))
    /\ TargetOf(A, Trimmed(files[A].lines[2])) = Missing
    /\ IsEntryLine(Trimmed(files[A].lines[3]))
    /\ ret.status = "ok"
    /\ ret.packages = <<Trimmed(files[A].lines[1]), Trimmed(files[A].lines[3])>>
    /\ ret.warnings = <<Missing>>

\* C3: the read of a file that includes itself, directly or transitively,
\* ends with the distinct cyclic-include error.
C3_CycleFailsWithCyclicInclude ==
    (ReadDone /\ IncludesItself(files, call.path)) => ret.status = "CyclicInclude"

\* the reader keeps no visited set: it ends a cyclic read only by exhausting
\* the interpreter's recursion limit, and exhausts it on no acyclic input
RecursionErrorOnlyOnCycle ==
    (ReadDone /\ ret.status = "RecursionError") => IncludesItself(files, call.path)

CycleEndsInError ==
    (ReadDone /\ IncludesItself(files, call.path))
        => ret.status \in {"RecursionError", "OSError", "TOMLDecodeError"}

\* C4: read_requirements on a path that does not exist raises the not-found
\* error and returns no list; check_packages_to_uninstall lets it through to
\* its caller, and main ends with a non-zero status.
C4_MissingFileIsNotFound ==
    (pc # "start" /\ call.path \notin DOMAIN files) =>
        /\ ret = Raise("FileNotFoundError", <<>>)
        /\ call.op = "check_packages_to_uninstall" => pc = "raised"
        /\ call.op = "main" => pc = "exit" /\ exit_code # 0 /\ exit_code # Running

\* main was given a path that does not exist and has exited with status 1
C4_Witness ==
    /\ call.op = "main" /\ call.path = Missing /\ pc = "exit"
    /\ ret.status = "FileNotFoundError" /\ exit_code = 1

(***************************************************************************)
(* package_classifier.py                                                   *)
(***************************************************************************)
\* str.lower() on one symbol: the upper-case symbols of the model
LowerSymbol(c) ==
    CASE c = "Yaml" -> "yaml"
      [] c = "Os" -> "os"
      [] c = "App" -> "app"
      [] c = "Pkg" -> "pkg"
      [] OTHER -> c

\* str.lower()
Lower(s) == [i \in 1..Len(s) |-> LowerSymbol(s[i])]

\* s.split(".")[0]
FirstSegment(s) ==
    LET dots == {i \in 1..Len(s) : s[i] = "."}
    IN  IF dots = {} THEN s ELSE SubSeq(s, 1, SetMin(dots) - 1)

\* the symbols of the model in code-point order
SymbolOrder ==
    <<".", "/", "0.1", "2.31", "6.0", "App", "Os", "Yaml", "_", "__init__", "app",
      "ast", "json", "main", "np", "os", "path", "pip", "requests", "setup",
      "setuptools", "sys", "test", "tests", "x", "yaml">>

Rank(c) == CHOOSE i \in 1..Len(SymbolOrder) : SymbolOrder[i] = c

RECURSIVE StrLess(_, _)
\* a < b on strings
StrLess(a, b) ==
    IF b = <<>> THEN FALSE
    ELSE IF a = <<>> THEN TRUE
    ELSE IF Head(a) = Head(b) THEN StrLess(Tail(a), Tail(b))
    ELSE Rank(Head(a)) < Rank(Head(b))

RECURSIVE SortedStrings(_)
\* sorted(set(names))
SortedStrings(S) ==
    IF S = {} THEN <<>>
    ELSE LET least == CHOOSE x \in S : \A y \in S : x = y \/ StrLess(x, y)
         IN  <<least>> \o SortedStrings(S \ {least})

\* (p, v) < (q, w) on tuples of strings
PairLess(a, b) == StrLess(a[1], b[1]) \/ (a[1] = b[1] /\ StrLess(a[2], b[2]))

RECURSIVE SortedPairs(_)
\* sorted(set((p, v) ...))
SortedPairs(S) ==
    IF S = {} THEN <<>>
    ELSE LET least == CHOOSE x \in S : \A y \in S : x = y \/ PairLess(x, y)
         IN  <<least>> \o SortedPairs(S \ {least})

\* lines 14-18
STDLIB_MODULES ==
    {FirstSegment(name) : name \in BuiltinModuleNames \cup SysModules}
        \ {<<"test">>, <<"pip">>, <<"setuptools">>}

\* lines 21-30; of "test", "tests", "testing", "examples", "setup",
\* "__main__", "__init__", "conftest" the ones the model's names can hit
IGNORED_MODULES == {<<"test">>, <<"tests">>, <<"setup">>, <<"__init__">>}

\* lines 33-50, were the set of line 14 computed from sys.modules at each call
IsStdlibPackageLive(package_name) ==
    package_name \in ({FirstSegment(name) : name \in BuiltinModuleNames \cup sys_modules}
                         \ {<<"test">>, <<"pip">>, <<"setuptools">>})

\* lines 33-50
IsStdlibPackage(package_name) ==
    package_name \in STDLIB_MODULES \/ package_name \in BuiltinModuleNames

\* lines 66-74: the four places probed, relative to the project root
PossibleLocations(package_name) ==
    { package_name \o <<"/", "__init__", ".py">>,
      package_name \o <<".py">>,
      <<"..", "/">> \o package_name \o <<"/", "__init__", ".py">>,
      <<"..", "/">> \o package_name \o <<".py">> }

\* lines 53-76
IsProjectPackage(package_name, fs) ==
    package_name \in IGNORED_MODULES
        \/ \E loc \in PossibleLocations(package_name) : Exists(fs, loc)

\* importlib.metadata: the installed distributions and their versions
DistributionVersion(package_name) ==
    IF package_name = <<"requests">> THEN <<"2.31">> ELSE <<>>

\* the importable modules that carry __version__ or VERSION
ModuleVersion(package_name) ==
    IF package_name = <<"yaml">> THEN <<"6.0">> ELSE <<>>

\* lines 79-101
GetPackageVersion(package_name) ==
    IF DistributionVersion(package_name) # <<>>
    THEN DistributionVersion(package_name)
    ELSE ModuleVersion(package_name)

\* line 125: `not package or package.startswith(".")`
IsSkipped(package) == package = <<>> \/ StartsWith(package, <<".">>)

\* line 129
BasePackage(package) == Lower(FirstSegment(package))

\* line 138: what the third-party list is given for a package
ThirdPartyEntry(package) ==
    <<BasePackage(package), GetPackageVersion(BasePackage(package))>>

\* lines 104-144, were the `elif` and `else` of lines 133-135 an `if` of
\* their own after the stdlib test
ClassifyPackagesNoElif(names, fs) ==
    LET kept == {p \in names : ~IsSkipped(p)}
        stdlib_packages == {p \in kept : IsStdlibPackage(BasePackage(p))}
        project_packages == {p \in kept : IsProjectPackage(BasePackage(p), fs)}
        third_party_packages == {ThirdPartyEntry(p) : p \in kept \ stdlib_packages}
    IN  [stdlib |-> SortedStrings(stdlib_packages),
         project |-> SortedStrings(project_packages),
         third_party |-> SortedPairs(third_party_packages)]

\* lines 104-144
ClassifyPackages(names, fs) ==
    LET kept == {p \in names : ~IsSkipped(p)}
        stdlib_packages == {p \in kept : IsStdlibPackage(BasePackage(p))}
        project_packages ==
            {p \in kept \ stdlib_packages : IsProjectPackage(BasePackage(p), fs)}
        third_party_packages ==
            {ThirdPartyEntry(p) : p \in (kept \ stdlib_packages) \ project_packages}
    IN  [stdlib |-> SortedStrings(stdlib_packages),
         project |-> SortedStrings(project_packages),
         third_party |-> SortedPairs(third_party_packages)]

\* the modules importlib.import_module finds on the path
ImportableModules == {<<"yaml">>, <<"np">>}

\* lines 89-94: the module get_package_version imports, which it does when
\* no distribution of that name is installed
ImportedByLookup(package_name) ==
    IF DistributionVersion(package_name) = <<>> /\ package_name \in ImportableModules
    THEN {package_name}
    ELSE {}

\* sys.modules after classify_packages(names, project_root): the modules
\* the version lookups of the third-party names have imported are added
ModulesAfterClassify(modules, names, fs) ==
    LET third_party == ClassifyPackages(names, fs).third_party
    IN  modules \cup UNION {ImportedByLookup(third_party[i][1]) :
                               i \in 1..Len(third_party)}

(***************************************************************************)
(* discovery.py                                                            *)
(***************************************************************************)
\* lines 24-32
Patterns ==
    << <<"requirements", ".txt">>, <<"requirements", "*", ".txt">>,
       <<"pyproject", ".toml">>, <<"setup", ".py">>, <<"Pipfile">>,
       <<"environment", ".yml">>, <<"conda", ".yml">> >>

\* line 39: "*" in pattern
HasStar(pattern) == \E i \in 1..Len(pattern) : pattern[i] = "*"

\* Path.glob for a pattern with one "*": the name matches
GlobMatches(pattern, name) ==
    LET star == CHOOSE i \in 1..Len(pattern) : pattern[i] = "*"
        prefix == SubSeq(pattern, 1, star - 1)
        suffix == SubSeq(pattern, star + 1, Len(pattern))
    IN  /\ Len(name) >= Len(prefix) + Len(suffix)
        /\ StartsWith(name, prefix)
        /\ EndsWith(name, suffix)

\* lines 38-48 for one pattern; entries is the order in which the directory
\* yields its entries
FoundForPattern(fs, entries, pattern) ==
    IF HasStar(pattern)
    THEN SelectSeq(entries, LAMBDA name : GlobMatches(pattern, name) /\ IsFile(fs, name))
    ELSE IF Exists(fs, pattern) THEN <<pattern>> ELSE <<>>

RECURSIVE FoundFrom(_, _, _)
FoundFrom(fs, entries, i) ==
    IF i > Len(Patterns) THEN <<>>
    ELSE FoundForPattern(fs, entries, Patterns[i]) \o FoundFrom(fs, entries, i + 1)

\* lines 12-50
FindRequirementsFiles(fs, entries) == FoundFrom(fs, entries, 1)

\* lines 287-294
PreferredFile(found_files) ==
    LET hits == {i \in 1..Len(found_files) :
                    Contains(Basename(found_files[i]), <<"requirements", ".txt">>)}
    IN  IF hits # {} THEN found_files[SetMin(hits)] ELSE found_files[1]

\* lines 104-119 with the set empty
NoSkipDirs == {}

\* lines 104-119; of the fourteen names the ones the model's trees can hit
SkipDirs == {<<".git">>, <<"__pycache__">>, <<"venv">>, <<"build">>}

\* the path of the entry `name` of the directory dir (<<>> is the root)
Child(dir, name) == IF dir = <<>> THEN name ELSE dir \o <<"/">> \o name

\* the entries of the directory dir: the first component of every path below
EntryNames(fs, dir) ==
    LET skip == IF dir = <<>> THEN 0 ELSE Len(dir) + 1
        below == {p \in DOMAIN fs :
                    /\ Len(p) > skip
                    /\ dir # <<>> => StartsWith(p, dir \o <<"/">>)}
        rest(p) == SubSeq(p, skip + 1, Len(p))
        first(r) == IF Slashes(r) = {} THEN r ELSE SubSeq(r, 1, SetMin(Slashes(r)) - 1)
    IN  {first(rest(p)) : p \in below} \ {<<"..">>}

\* an entry that is a directory: a "dir" record or the parent of a path
IsDir(fs, p) ==
    \/ (p \in DOMAIN fs /\ fs[p].kind = "dir")
    \/ \E q \in DOMAIN fs : StartsWith(q, p \o <<"/">>)

RECURSIVE Walk(_, _)
\* lines 121-127: os.walk from dir, the skipped directories removed before
\* the walk descends
Walk(fs, dir) ==
    LET names == EntryNames(fs, dir)
        dirs == {d \in names : IsDir(fs, Child(dir, d)) /\ d \notin SkipDirs}
        here == {Child(dir, f) : f \in {n \in names : ~IsDir(fs, Child(dir, n))}}
    IN  {f \in here : EndsWith(f, <<".py">>)}
            \cup UNION {Walk(fs, Child(dir, d)) : d \in dirs}

\* lines 92-129, directory "."
FindPythonFiles(fs) == Walk(fs, <<>>)

\* lines 65-68: what open, read and ast.parse raise on the file
ExtractFailure(fs, file_path) ==
    IF ~Exists(fs, file_path) \/ ~IsReadable(fs[file_path]) THEN "OSError"
    ELSE IF ~fs[file_path].py.ok THEN "SyntaxError"
    ELSE "none"

\* lines 69 and 86 with the second handler missing
CaughtSyntaxErrorOnly(exception) == exception = "SyntaxError"

\* lines 69 and 86: `except SyntaxError`, `except Exception`
CaughtByExtract(exception) == exception \notin {"KeyboardInterrupt", "SystemExit"}

\* lines 149-150: a call of extract_imports_from_file raises
ScanRaises(fs, paths) ==
    \E f \in paths :
        ExtractFailure(fs, f) # "none" /\ ~CaughtByExtract(ExtractFailure(fs, f))

\* lines 53-89
ExtractImportsFromFile(fs, file_path) ==
    IF ~Exists(fs, file_path) \/ ~IsReadable(fs[file_path]) THEN {}
    ELSE IF ~fs[file_path].py.ok THEN {}
    ELSE LET stmts == fs[file_path].py.imports
         IN  {FirstSegment(stmts[i]) : i \in {j \in 1..Len(stmts) : stmts[j] # <<>>}}

\* lines 175-253; of the hard-coded names the ones the model's imports can hit
FilterStdlibModules == {<<"os">>, <<"sys">>, <<"json">>}

\* lines 164-259
FilterStandardLibrary(names) ==
    {imp \in names : imp \notin FilterStdlibModules /\ ~StartsWith(imp, <<"_">>)}

\* lines 132-161
AnalyzeProjectImports(fs) ==
    FilterStandardLibrary(
        UNION {ExtractImportsFromFile(fs, f) : f \in FindPythonFiles(fs)})

(***************************************************************************)
(* discovery.py: auto_discover_requirements, directory "."                 *)
(***************************************************************************)
\* line 303: the provenance of a list read from a file
RequirementsFileMethod(preferred_file) == <<"requirements file: ">> \o preferred_file

ImportAnalysis == <<"import analysis">>

NoPackagesFound == <<"no packages found">>

\* line 302: [(pkg, "") for pkg in ...]
WithoutVersion(pkgs) == [i \in 1..Len(pkgs) |-> <<pkgs[i], <<>>>>]

\* line 304: `except Exception`
CaughtOnlyNotFound(status) == status = "FileNotFoundError"

CaughtByDiscovery(status) == status \notin {"KeyboardInterrupt", "SystemExit"}

\* an entry of the log of consulted sources
Consulted(step, path, yield) == [step |-> step, path |-> path, yield |-> yield]

\* the number of packages a read produced, -1 when it raised
YieldOf(r) == IF r.status = "ok" THEN Len(r.packages) ELSE -1

\* lines 282-283
DiscoverFind ==
    /\ pc = "start"
    /\ call.op = "auto_discover_requirements"
    /\ req_files' = FindRequirementsFiles(files, listing)
    /\ pc' = IF req_files' # <<>> THEN "read" ELSE "analyze"
    /\ UNCHANGED <<files, listing, call, ret, exit_code, tried, discovered,
                   classification, found>>
    /\ UNCHANGED <<classifierVars, scanVars, pipVars>>

\* lines 285-305
DiscoverRead ==
    /\ pc = "read"
    /\ LET preferred_file == PreferredFile(req_files)
           r == ReadRequirements(files, preferred_file, 1)
       IN  /\ ret' = r
           /\ tried' = Append(tried, Consulted("read", preferred_file, YieldOf(r)))
           /\ IF r.status = "ok"
              THEN /\ found' = [packages |-> WithoutVersion(r.packages),
                                method |-> RequirementsFileMethod(preferred_file)]
                   /\ pc' = "done"
              ELSE /\ found' = found
                   /\ pc' = IF CaughtByDiscovery(r.status) THEN "analyze" ELSE "raised"
    /\ UNCHANGED <<files, listing, call, exit_code, req_files, discovered,
                   classification>>
    /\ UNCHANGED <<classifierVars, scanVars, pipVars>>

\* lines 307-311 and 322-324
DiscoverAnalyze ==
    /\ pc = "analyze"
    /\ python_files' = FindPythonFiles(files)
    /\ IF ScanRaises(files, python_files')
       THEN /\ pc' = "raised"
            /\ UNCHANGED <<all_imports, discovered, tried, found>>
       ELSE /\ all_imports' =
                   UNION {ExtractImportsFromFile(files, f) : f \in python_files'}
            /\ discovered' = FilterStandardLibrary(all_imports')
            /\ tried' = Append(tried, Consulted("scan", <<>>, Cardinality(discovered')))
            /\ IF discovered' # {}
               THEN pc' = "classify" /\ found' = found
               ELSE /\ pc' = "done"
                    /\ found' = [packages |-> <<>>, method |-> NoPackagesFound]
    /\ UNCHANGED <<files, listing, call, ret, exit_code, req_files, classification>>
    /\ UNCHANGED <<classifierVars, pipVars>>

\* lines 311-320
DiscoverClassify ==
    /\ pc = "classify"
    /\ call.op = "auto_discover_requirements"
    /\ classification' = ClassifyPackages(discovered, files)
    /\ found' = [packages |-> classification'.third_party, method |-> ImportAnalysis]
    /\ pc' = "done"
    /\ sys_modules' = ModulesAfterClassify(sys_modules, discovered, files)
    /\ UNCHANGED <<files, listing, call, ret, exit_code, req_files, tried, discovered>>
    /\ UNCHANGED <<rerun, scanVars, pipVars>>

(***************************************************************************)
(* The project directories the discovery is run on                         *)
(***************************************************************************)
ReqTxt == <<"requirements", ".txt">>

ReqDev == <<"requirements", "-dev", ".txt">>

ReqTxtTxt == <<"requirements", ".txt", ".txt">>

PyProject == <<"pyproject", ".toml">>

SetupPy == <<"setup", ".py">>

MainPy == <<"main", ".py">>

AppPy == <<"app", ".py">>

VenvPy == <<"venv", "/", "x", ".py">>

OnlyComments == TextFile(<<<<"#", " ", "pinned", "\n">>, <<"\n">>>>)

TwoPackages ==
    TextFile(<<<<"requests", ">", "=", "2", "\n">>, <<"np", "\n">>>>)

SelfIncluding == TextFile(<<<<"-", "r", " ", "requirements", ".txt", "\n">>>>)

OnePackage(name) == TextFile(<<<<name, "=", "=", "1", "\n">>>>)

ManifestWithDeps ==
    TomlFile(<<<<"[project]", "\n">>>>,
             Manifest(Val(TRUE, <<<<"requests", ">", "=", "2">>>>), <<>>, NoVal))

ManifestWithoutDeps ==
    TomlFile(<<<<"[tool]", "\n">>>>, Manifest(NoVal, <<>>, NoVal))

BrokenManifest == TomlFile(<<<<"[project", "\n">>>>, NotToml)

SetupScript ==
    PyFile(<<<<"from setuptools import setup", "\n">>, <<"setup()", "\n">>>>,
           <<<<"setuptools">>>>)

\* sources at depth two and three, two of them under directories that are
\* skipped, one that does not parse, and a file that is no source
DeepTree ==
    (MainPy :> PyFile(<<>>, <<<<"yaml">>>>))
        @@ (<<"pkg", "/", "bad", ".py">> :> TextFile(<<<<"def", "\n">>>>))
        @@ (<<"pkg", "/", "sub", "/", "c", ".py">> :> PyFile(<<>>, <<<<"np", ".", "x">>>>))
        @@ (<<"pkg", "/", "build", "/", "d", ".py">> :> PyFile(<<>>, <<<<"requests">>>>))
        @@ (<<"pkg", "/", "sub", "/", ".git", "/", "h", ".py">> :> PyFile(<<>>, <<<<"json">>>>))
        @@ (<<"pkg", "/", "notes", ".txt">> :> TextFile(<<>>))

\* an unreadable source, one that does not parse, and one that parses
BadFilesTree ==
    (<<"a", ".py">> :> Unreadable)
        @@ (<<"b", ".py">> :> TextFile(<<<<"def", "\n">>>>))
        @@ (<<"c", ".py">> :> PyFile(<<>>, <<<<"requests", ".", "x">>, <<"os">>>>))

\* the Python sources of the project: none; third-party and stdlib imports;
\* an import of the project's own module only; a stdlib import only; a file
\* that does not parse; a source under a skipped directory
SourceTrees ==
    { <<>>,
      (MainPy :> PyFile(<<>>, <<<<"yaml">>, <<"os", ".", "path">>, <<"requests", ".", "x">>>>)),
      (MainPy :> PyFile(<<>>, <<<<"app">>, <<>>>>)) @@ (AppPy :> PyFile(<<>>, <<>>)),
      (MainPy :> PyFile(<<>>, <<<<"ast">>, <<"os">>>>)),
      (MainPy :> TextFile(<<<<"def", "\n">>>>)),
      (MainPy :> PyFile(<<>>, <<<<"np">>>>)) @@ (VenvPy :> PyFile(<<>>, <<<<"yaml">>>>)),
      DeepTree, BadFilesTree, (MainPy :> Unreadable),
      (<<"Venv", "/", "x", ".py">> :> PyFile(<<>>, <<<<"np">>>>))
          @@ (<<"build">> :> TextFile(<<>>)) }

\* marks a path that does not exist in a choice of files
Absent == [kind |-> "absent", lines |-> <<>>, doc |-> NotToml, py |-> NotPython]

\* the function with the absent paths left out
Present(f) == [p \in {q \in DOMAIN f : f[q] # Absent} |-> f[p]]

RequirementFiles ==
    { Present((ReqTxt :> r) @@ (ReqDev :> d) @@ (ReqTxtTxt :> x)
              @@ (PyProject :> m) @@ (SetupPy :> u)) :
        r \in {Absent, OnlyComments, TwoPackages, SelfIncluding, Directory, Unreadable},
        d \in {Absent, OnePackage("dev")},
        x \in {Absent, OnePackage("old")},
        m \in {Absent, ManifestWithDeps, ManifestWithoutDeps, BrokenManifest},
        u \in {Absent, SetupScript} }

DiscoveryFileSystems == {r @@ t : r \in RequirementFiles, t \in SourceTrees}

\* the orders in which a directory may yield the entries of the set S
Orders(S) ==
    {o \in [1..Cardinality(S) -> S] : \A i, j \in 1..Cardinality(S) : o[i] = o[j] => i = j}

\* the root entries the glob pattern can match
GlobEntries(fs) ==
    {p \in DOMAIN fs : Slashes(p) = {} /\ GlobMatches(Patterns[2], p)}

InitDiscover ==
    /\ files \in DiscoveryFileSystems
    /\ listing \in Orders(GlobEntries(files))
    /\ call = [op |-> "auto_discover_requirements", path |-> <<>>]
    /\ pc = "start"
    /\ ret = NoResult
    /\ exit_code = Running
    /\ DiscoveryIdle
    /\ UtilitiesIdle

NextDiscover == DiscoverFind \/ DiscoverRead \/ DiscoverAnalyze \/ DiscoverClassify

SpecDiscover == InitDiscover /\ [][NextDiscover]_vars

(***************************************************************************)
(* Properties of the discovery                                             *)
(***************************************************************************)
DiscoverDone == call.op = "auto_discover_requirements" /\ pc = "done"

\* a requirement-list file, requirements*.txt
IsRequirementList(path) ==
    LET name == Basename(path)
    IN  Len(name) >= 2 /\ name[1] = "requirements" /\ name[Len(name)] = ".txt"

\* the positions of the log at which a file was read / the sources scanned
Reads == {i \in 1..Len(tried) : tried[i].step = "read"}

Scans == {i \in 1..Len(tried) : tried[i].step = "scan"}

\* what strategies 2 and 3 return for the project
ImportAnalysisResult(fs) ==
    IF AnalyzeProjectImports(fs) # {}
    THEN [packages |-> ClassifyPackages(AnalyzeProjectImports(fs), fs).third_party,
          method |-> ImportAnalysis]
    ELSE [packages |-> <<>>, method |-> NoPackagesFound]

\* C5: the sources are consulted in the order requirement-list file, project
\* manifest, source scan: when the requirement-list file that was read
\* yields no package and a manifest exists, the manifest is read next, before
\* any import analysis.
C5_ManifestReadBeforeImportAnalysis ==
    DiscoverDone =>
        \A i \in Reads :
            (IsRequirementList(tried[i].path) /\ tried[i].yield <= 0
                /\ PyProject \in DOMAIN files)
            => \E j \in Reads :
                  /\ j > i
                  /\ tried[j].path = PyProject
                  /\ \A k \in Scans : j < k

\* C6: when strategy 1 yields no package the source scan runs, and an empty
\* list is never returned with a requirements-file provenance while the
\* sources have imports.
C6_NothingFromFilesRunsImportAnalysis ==
    DiscoverDone =>
        /\ (\A i \in Reads : tried[i].yield <= 0) => Scans # {}
        /\ ~ /\ found.packages = <<>>
             /\ StartsWith(found.method, <<"requirements file: ">>)
             /\ AnalyzeProjectImports(files) # {}

\* C7: a failed read of the chosen requirement or manifest file never makes
\* the discovery fail; the discovery goes on to the import analysis and
\* returns what the import analysis produces.
C7_ReadFailureFallsThrough ==
    (call.op = "auto_discover_requirements"
        /\ \E i \in Reads : tried[i].yield = -1)
    => /\ pc # "raised"
       /\ pc = "done" => Scans # {} /\ found = ImportAnalysisResult(files)

\* the manifest was chosen and is malformed; the list returned is the one
\* of the import analysis
C7_Witness ==
    /\ DiscoverDone
    /\ tried[1].path = PyProject /\ ret.status = "TOMLDecodeError"
    /\ found.method = ImportAnalysis
    /\ found.packages # <<>>

\* C8: when the import analysis ran and the list returned is empty, the
\* provenance is "no packages found"; an empty list is never returned with
\* the provenance "import analysis".
C8_EmptyResultIsNoPackagesFound ==
    (DiscoverDone /\ Scans # {} /\ found.packages = <<>>)
        => found.method = NoPackagesFound

\* C9: the file parsed is requirements.txt when it is among the candidates,
\* and the first candidate in discovery order otherwise.
C9_PrefersExactRequirementsTxt ==
    (call.op = "auto_discover_requirements" /\ Reads # {}) =>
        tried[1].path =
            IF \E i \in 1..Len(req_files) : req_files[i] = ReqTxt
            THEN ReqTxt ELSE req_files[1]

\* requirements.txt among the candidates is the file parsed, whatever else
\* is there
RequirementsTxtIsPreferred ==
    (call.op = "auto_discover_requirements" /\ Reads # {}
        /\ \E i \in 1..Len(req_files) : req_files[i] = ReqTxt)
    => tried[1].path = ReqTxt

(***************************************************************************)
(* package_classifier.py: classify_packages called on a set of names       *)
(***************************************************************************)
\* the names a module set is made of: empty and dot-prefixed names, names
\* differing in case only, names sharing their first segment, standard
\* library, project and third-party names
NamePool ==
    { <<>>, <<".", "x">>, <<"os">>, <<"Os">>, <<"os", ".", "path">>,
      <<"app">>, <<"App">>, <<"tests">>, <<"yaml">>, <<"Yaml">>,
      <<"yaml", ".", "x">>, <<"np">>, <<"requests">> }

\* the project roots: no module of the project's own, app.py at the root,
\* app/ as a package next to the root
ProjectLayouts ==
    { (MainPy :> PyFile(<<>>, <<>>)),
      (MainPy :> PyFile(<<>>, <<>>)) @@ (AppPy :> PyFile(<<>>, <<>>)),
      (MainPy :> PyFile(<<>>, <<>>))
          @@ (<<"..", "/", "app", "/", "__init__", ".py">> :> PyFile(<<>>, <<>>)) }

InitClassify ==
    /\ files \in ProjectLayouts
    /\ listing = <<>>
    /\ call = [op |-> "classify_packages", path |-> <<>>]
    /\ pc = "start"
    /\ ret = NoResult
    /\ exit_code = Running
    /\ req_files = <<>>
    /\ tried = <<>>
    /\ discovered \in {S \in SUBSET NamePool : Cardinality(S) <= MaxModules}
    /\ classification = NoClassification
    /\ found = NoFound
    /\ UtilitiesIdle

\* classify_packages(packages, project_root), lines 104-144
CallClassifyPackages ==
    /\ pc = "start"
    /\ call.op = "classify_packages"
    /\ classification' = ClassifyPackages(discovered, files)
    /\ sys_modules' = ModulesAfterClassify(sys_modules, discovered, files)
    /\ pc' = "done"
    /\ UNCHANGED <<files, listing, call, ret, exit_code, req_files, tried,
                   discovered, found>>
    /\ UNCHANGED <<rerun, scanVars, pipVars>>

\* classify_packages called again with the same arguments
CallClassifyPackagesAgain ==
    /\ pc = "done"
    /\ call.op = "classify_packages"
    /\ rerun' = ClassifyPackages(discovered, files)
    /\ sys_modules' = ModulesAfterClassify(sys_modules, discovered, files)
    /\ pc' = "done twice"
    /\ UNCHANGED <<files, listing, call, ret, exit_code, req_files, tried,
                   discovered, classification, found>>
    /\ UNCHANGED <<scanVars, pipVars>>

NextClassify == CallClassifyPackages \/ CallClassifyPackagesAgain

SpecClassify == InitClassify /\ [][NextClassify]_vars

ClassifyDone == call.op = "classify_packages" /\ pc \in {"done", "done twice"}

\* the names that are dropped: the empty and the dot-prefixed ones
DroppedNames(names) == {n \in names : n = <<>> \/ n[1] = "."}

\* C10: the three lists and the dropped names account for every name of the
\* input set: len(stdlib) + len(project) + len(thirdParty) + |dropped| is
\* the size of the input set.
C10_ClassificationIsExhaustive ==
    ClassifyDone =>
        Len(classification.stdlib) + Len(classification.project)
            + Len(classification.third_party)
            + Cardinality(DroppedNames(discovered))
        = Cardinality(discovered)

\* the count holds for the sets whose third-party names have distinct
\* lower-cased first segments
CountHoldsWithoutCollisions ==
    (ClassifyDone
        /\ \A m, n \in discovered :
              (Lower(FirstSegment(m)) = Lower(FirstSegment(n))) => m = n)
    => Len(classification.stdlib) + Len(classification.project)
           + Len(classification.third_party)
           + Cardinality(DroppedNames(discovered))
       = Cardinality(discovered)

\* the names of a list
Names(list) == {list[i] : i \in 1..Len(list)}

\* the name components of the third-party list
ThirdPartyNames(list) == {list[i][1] : i \in 1..Len(list)}

\* C11: no name is in more than one of stdlib, project and thirdParty, the
\* thirdParty entries compared by their name component.
C11_OutputsPairwiseDisjoint ==
    ClassifyDone =>
        /\ Names(classification.stdlib) \cap Names(classification.project) = {}
        /\ Names(classification.stdlib)
               \cap ThirdPartyNames(classification.third_party) = {}
        /\ Names(classification.project)
               \cap ThirdPartyNames(classification.third_party) = {}

\* a set with a standard-library, a project and a third-party name has been
\* classified, the project name found on disk
C11_Witness ==
    /\ ClassifyDone
    /\ <<"app">> \in Names(classification.project)
    /\ classification.stdlib # <<>>
    /\ classification.third_party # <<>>

ItemPool ==
    { <<"pip">>, <<"pip", " ">>, <<"cli">>, <<"t", ">", "=", "1">>,
      <<"u", "=", "=", "2">>, <<"v", "<", "3">>, <<"w", "~", "=", "1">>,
      <<"see", " ", "<", "docs", ">">> }

\* project.dependencies: absent, a string, an array
DependenciesPool ==
    {NoVal, Val(FALSE, <<<<"t", ">", "=", "1">>>>)}
        \cup {Val(TRUE, items) : items \in SeqsUpTo(ItemPool, MaxItems)}

\* a group under project.optional-dependencies: an array or a string
GroupPool ==
    { Val(TRUE, <<<<"g", ">", "1">>, <<"cli">>>>), Val(TRUE, <<<<"h", "<", "=", "2">>>>),
      Val(FALSE, <<<<"k", "=", "=", "1">>>>) }

\* build-system.requires: absent, a string, an array
RequiresPool ==
    { NoVal, Val(FALSE, <<<<"setuptools">>>>),
      Val(TRUE, <<<<"setuptools">>, <<"wheel">>, <<"x", "!", "=", "1">>>>) }

ManifestDocs ==
    { Manifest(d, o, r) :
        d \in DependenciesPool, o \in SeqsUpTo(GroupPool, MaxGroups), r \in RequiresPool }
    \cup { Misshapen(FALSE, TRUE, TRUE), Misshapen(TRUE, FALSE, TRUE),
           Misshapen(TRUE, TRUE, FALSE), NotToml }

InitManifest ==
    /\ files \in {(T :> TomlFile(<<>>, doc)) : doc \in ManifestDocs} \cup {(T :> Unreadable)}
    /\ listing = <<>>
    /\ call = [op |-> "parse_toml_requirements", path |-> T]
    /\ pc = "start"
    /\ ret = NoResult
    /\ exit_code = Running
    /\ DiscoveryIdle
    /\ UtilitiesIdle

\* parse_toml_requirements(file_path), lines 91-146
CallParseTomlRequirements ==
    /\ pc = "start"
    /\ call.op = "parse_toml_requirements"
    /\ ret' = ParseTomlRequirements(files, call.path)
    /\ pc' = "done"
    /\ UNCHANGED <<files, listing, call, exit_code, discoveryVars>>
    /\ UNCHANGED <<classifierVars, scanVars, pipVars>>

NextManifest == CallParseTomlRequirements

SpecManifest == InitManifest /\ [][NextManifest]_vars

ManifestDone == call.op = "parse_toml_requirements" /\ pc = "done"

\* the document of the manifest that was read
Doc == files[T].doc

\* the entries of an array-valued section; nothing for another value
ArrayEntries(v) == IF v.list THEN v.items ELSE <<>>

RECURSIVE Flatten(_)
Flatten(seqs) == IF seqs = <<>> THEN <<>> ELSE Head(seqs) \o Flatten(Tail(seqs))

\* project.dependencies, the groups in declaration order, build-system.requires
Concatenation(doc) ==
    ArrayEntries(doc.dependencies)
        \o Flatten([i \in 1..Len(doc.optional) |-> ArrayEntries(doc.optional[i])])
        \o ArrayEntries(doc.requires)

\* the entry holds one of >=, ==, <=, <, > (that is "<", ">" or "==")
HasOperator(entry) ==
    \E i \in 1..Len(entry) :
        \/ entry[i] \in {"<", ">"}
        \/ i < Len(entry) /\ entry[i] = "=" /\ entry[i + 1] = "="

IsKept(entry) ==
    entry \in {<<"pip">>, <<"setuptools">>, <<"wheel">>} \/ HasOperator(entry)

C14_ConcatenatesWithoutFailure ==
    (ManifestDone /\ IsReadable(files[T]) /\ Doc.valid) =>
        /\ ret.status = "ok"
        /\ ret.packages = SelectSeq(Concatenation(Doc), IsKept)

\* with project, project.optional-dependencies and build-system tables or
\* absent the output is that concatenation
ConcatenatesWhenTables ==
    (ManifestDone /\ IsReadable(files[T]) /\ Doc.valid
        /\ Doc.project_is_table /\ Doc.optional_is_table /\ Doc.build_is_table)
    => /\ ret.status = "ok"
       /\ ret.packages = SelectSeq(Concatenation(Doc), IsKept)

(***************************************************************************)
(* installer.py and uninstaller.py                                         *)
(***************************************************************************)
\* what subprocess.run(cmd, check=True) does: it returns with exit status
\* 0, raises CalledProcessError with the exit status of the command,
\* raises KeyboardInterrupt, or finds no pip executable
RunOutcomes ==
    { [raised |-> "none", returncode |-> 0],
      [raised |-> "CalledProcessError", returncode |-> 1],
      [raised |-> "CalledProcessError", returncode |-> 2],
      [raised |-> "CalledProcessError", returncode |-> 130],
      [raised |-> "KeyboardInterrupt", returncode |-> 0],
      [raised |-> "FileNotFoundError", returncode |-> 0] }

\* an entry of the log of subprocess.run calls
Ran(argv, outcome) ==
    [argv |-> argv, raised |-> outcome.raised, returncode |-> outcome.returncode]

PipReturn(code, ran) == [raised |-> "none", code |-> code, commands |-> ran]

PipRaise(exception, ran) == [raised |-> exception, code |-> Running, commands |-> ran]

\* installer.py lines 41-57, uninstaller.py lines 71-87
RunPip(cmd, outcome) ==
    IF outcome.raised = "none" THEN PipReturn(outcome.returncode, <<Ran(cmd, outcome)>>)
    ELSE IF outcome.raised = "CalledProcessError"
    THEN PipReturn(outcome.returncode, <<Ran(cmd, outcome)>>)
    ELSE IF outcome.raised = "KeyboardInterrupt"
    THEN PipReturn(130, <<Ran(cmd, outcome)>>)
    ELSE PipRaise(outcome.raised, <<Ran(cmd, outcome)>>)

\* installer.py lines 8-57
InstallPackages(packages, dry_run, outcome) ==
    IF packages = <<>> THEN PipReturn(0, <<>>)
    ELSE IF dry_run THEN PipReturn(0, <<>>)
    ELSE RunPip(<<<<"pip">>, <<"install">>>> \o packages, outcome)

\* uninstaller.py line 65
PackageNames(packages) == [i \in 1..Len(packages) |-> ParsePackageName(packages[i])]

\* uninstaller.py lines 34-87 without the test of line 51
UninstallPackageListAlways(packages, dry_run, outcome) ==
    IF packages = <<>> THEN PipReturn(0, <<>>)
    ELSE RunPip(<<<<"pip">>, <<"uninstall">>, <<"-y">>>> \o PackageNames(packages), outcome)

\* uninstaller.py lines 34-87
UninstallPackageList(packages, dry_run, outcome) ==
    IF packages = <<>> THEN PipReturn(0, <<>>)
    ELSE IF dry_run THEN PipReturn(0, <<>>)
    ELSE RunPip(<<<<"pip">>, <<"uninstall">>, <<"-y">>>> \o PackageNames(packages), outcome)

PipList == <<<<"pip">>, <<"list">>, <<"--format=freeze">>>>

\* checker.py lines 37-45 and uninstaller.py lines 132-140 with the names
\* as pip list printed them
InstalledAsPrinted(stdout) ==
    { SplitFirst(stdout[i], <<"=", "=">>) :
        i \in {j \in 1..Len(stdout) : Contains(stdout[j], <<"=", "=">>)} }

\* checker.py lines 37-45 and uninstaller.py lines 132-140: the lower-cased
\* names of the lines of name==version form that pip list printed
InstalledPackages(stdout) ==
    { Lower(SplitFirst(stdout[i], <<"=", "=">>)) :
        i \in {j \in 1..Len(stdout) : Contains(stdout[j], <<"=", "=">>)} }

CheckReturn(missing_packages, already_installed, ran) ==
    [raised |-> "none", missing_packages |-> missing_packages,
     already_installed |-> already_installed, commands |-> ran]

CheckRaise(exception, ran) ==
    [raised |-> exception, missing_packages |-> <<>>, already_installed |-> <<>>,
     commands |-> ran]

\* checker.py lines 10-71: list_outcome and stdout are what pip list does
\* and prints
CheckInstalledPackages(packages, list_outcome, stdout) ==
    IF list_outcome.raised # "none"
    THEN CheckRaise(list_outcome.raised, <<Ran(PipList, list_outcome)>>)
    ELSE LET installed_packages == InstalledPackages(stdout)
             IsInstalled(package) ==
                 Lower(ParsePackageName(package)) \in installed_packages
             IsMissing(package) == ~IsInstalled(package)
         IN  CheckReturn(SelectSeq(packages, IsMissing),
                         SelectSeq(packages, IsInstalled),
                         <<Ran(PipList, list_outcome)>>)

\* uninstaller.py lines 149-166 with every package found
EveryPackage(packages, installed) == packages

\* uninstaller.py lines 149-166: the packages whose lower-cased name pip
\* list reported
FoundPackages(packages, installed) ==
    LET IsInstalled(package) == Lower(ParsePackageName(package)) \in installed
    IN  SelectSeq(packages, IsInstalled)

\* uninstaller.py lines 10-31: list_outcome and installed are what pip list
\* does and reports, outcome what pip uninstall does
UninstallPackages(fs, requirements_file, dry_run, list_outcome, installed, outcome) ==
    LET r == ReadRequirements(fs, requirements_file, 1)
    IN  IF r.status = "FileNotFoundError" THEN PipReturn(1, <<>>)
        ELSE IF r.status # "ok" THEN PipRaise(r.status, <<>>)
        ELSE IF list_outcome.raised # "none"
        THEN PipRaise(list_outcome.raised, <<Ran(PipList, list_outcome)>>)
        ELSE LET u == UninstallPackageList(FoundPackages(r.packages, installed),
                                           dry_run, outcome)
             IN  [u EXCEPT !.commands = <<Ran(PipList, list_outcome)>> \o @]

\* what the pip list commands among ran printed: stdouts holds what each
\* would print, and a pip list that raised printed nothing that is read
Printed(ran, stdouts) ==
    LET lists == SelectSeq(ran, LAMBDA c : c.argv = PipList /\ c.raised = "none")
    IN  SubSeq(stdouts, 1, Len(lists))

(***************************************************************************)
(* parse_package_name, install_packages, uninstall_packages and            *)
(* check_installed_packages called                                         *)
(***************************************************************************)
\* names over [a-zA-Z0-9_-]
PackageNamePool == SeqsUpTo(NameSymbols, MaxNameLen) \ {<<>>}

ExtrasPool == {<<>>, <<"[", "pkg", "]">>, <<"[", "pkg", ",", "1", "]">>}

VersionPool == {<<"1">>, <<"1", ".", "0", ".", "0">>}

\* nothing, or a version operator and a version
ConstraintPool ==
    {<<>>} \cup {Separators[i] \o v : i \in 1..Len(Separators), v \in VersionPool}

CommentPool == {<<>>, <<"#", "c">>, <<" ", "#", " ", "c", ">", "=", "1">>}

\* name, extras, version constraint, comment
WellFormedSpecifiers ==
    { n \o x \o c \o k :
        n \in PackageNamePool, x \in ExtrasPool, c \in ConstraintPool, k \in CommentPool }

\* the lines that start with no symbol of a name
OtherSpecifiers ==
    { s \in SeqsUpTo({".", " ", "pkg", "<", ">", "=", "~"}, MaxSpecLen) :
        s = <<>> \/ s[1] \in {".", " "} }

\* the requirement files uninstall_packages is given
UninstallFiles ==
    { (B :> TextFile(lines)) :
        lines \in { <<>>,
                    <<<<"Pkg", "=", "=", "1", "\n">>>>,
                    <<<<"pkg", ">", "=", "1", "\n">>,
                      <<"pkg", "-", "1", "[", "pkg", "]", "\n">>>> } }
        \cup {(B :> Directory)}

\* the packages install_packages is given
PackagePool ==
    {<<"pkg">>, <<"Pkg", "=", "=", "1">>, <<"pkg", "-", "1", ">", "=", "1">>}

\* lines pip list --format=freeze prints: name==version, and a package
\* installed from a path
FreezeLines ==
    [pkg |-> <<"pkg", "=", "=", "1">>,
     Pkg1 |-> <<"Pkg", "-", "1", "=", "=", "1", ".", "0", ".", "0">>,
     local |-> <<"pkg", "-", "1", " ", "@", " ", "file">>]

\* what pip list may print
PipListOutputs ==
    { <<>>, <<FreezeLines.pkg>>, <<FreezeLines.Pkg1>>, <<FreezeLines.local>>,
      <<FreezeLines.pkg, FreezeLines.Pkg1>>, <<FreezeLines.local, FreezeLines.pkg>> }

InitPackages ==
    /\ \/ /\ files = <<>>
          /\ call \in [op : {"parse_package_name"}, path : {<<>>}, dry_run : {FALSE},
                       packages : {<<s>> : s \in WellFormedSpecifiers \cup OtherSpecifiers}]
       \/ /\ files = <<>>
          /\ call \in [op : {"install_packages"}, path : {<<>>}, dry_run : BOOLEAN,
                       packages : SeqsUpTo(PackagePool, MaxPackages)]
       \/ /\ files = <<>>
          /\ call \in [op : {"check_installed_packages"}, path : {<<>>},
                       dry_run : {FALSE},
                       packages : SeqsUpTo(PackagePool, MaxPackages)]
       \/ /\ files \in UninstallFiles
          /\ call \in [op : {"uninstall_packages"}, path : {B, Missing},
                       dry_run : BOOLEAN, packages : {<<>>}]
    /\ listing = <<>>
    /\ pc = "start"
    /\ ret = NoResult
    /\ exit_code = Running
    /\ DiscoveryIdle
    /\ UtilitiesIdle

\* parse_package_name(package_spec)
CallParsePackageName ==
    /\ pc = "start"
    /\ call.op = "parse_package_name"
    /\ parsed_name' = ParsePackageName(call.packages[1])
    /\ pc' = "returned"
    /\ UNCHANGED <<files, listing, call, ret, exit_code, discoveryVars>>
    /\ UNCHANGED <<classifierVars, scanVars, commands, reconcileVars>>

\* install_packages(packages, dry_run)
CallInstallPackages ==
    /\ pc = "start"
    /\ call.op = "install_packages"
    /\ \E outcome \in RunOutcomes :
          LET result == InstallPackages(call.packages, call.dry_run, outcome)
          IN  /\ commands' = result.commands
              /\ exit_code' = result.code
              /\ pc' = IF result.raised = "none" THEN "returned" ELSE "raised"
    /\ UNCHANGED <<files, listing, call, ret, discoveryVars>>
    /\ UNCHANGED <<classifierVars, scanVars, parsed_name, reconcileVars>>

\* uninstall_packages(requirements_file, dry_run)
CallUninstallPackages ==
    /\ pc = "start"
    /\ call.op = "uninstall_packages"
    /\ ret' = ReadRequirements(files, call.path, 1)
    /\ \E list_outcome \in RunOutcomes, stdout \in PipListOutputs,
          outcome \in RunOutcomes :
          LET result == UninstallPackages(files, call.path, call.dry_run,
                                          list_outcome, InstalledPackages(stdout),
                                          outcome)
          IN  /\ commands' = result.commands
              /\ oracle' = Printed(result.commands, <<stdout>>)
              /\ exit_code' = result.code
              /\ pc' = IF result.raised = "none" THEN "returned" ELSE "raised"
    /\ UNCHANGED <<files, listing, call, discoveryVars>>
    /\ UNCHANGED <<classifierVars, scanVars, parsed_name, checked, announced>>

\* check_installed_packages(packages)
CallCheckInstalledPackages ==
    /\ pc = "start"
    /\ call.op = "check_installed_packages"
    /\ \E list_outcome \in RunOutcomes, stdout \in PipListOutputs :
          LET result == CheckInstalledPackages(call.packages, list_outcome, stdout)
          IN  /\ commands' = result.commands
              /\ oracle' = Printed(result.commands, <<stdout>>)
              /\ checked' = [missing_packages |-> result.missing_packages,
                             already_installed |-> result.already_installed]
              /\ pc' = IF result.raised = "none" THEN "returned" ELSE "raised"
    /\ UNCHANGED <<files, listing, call, ret, exit_code, discoveryVars>>
    /\ UNCHANGED <<classifierVars, scanVars, parsed_name, announced>>

NextPackages ==
    \/ CallParsePackageName
    \/ CallInstallPackages
    \/ CallUninstallPackages
    \/ CallCheckInstalledPackages

SpecPackages == InitPackages /\ [][NextPackages]_vars

ParseDone == call.op = "parse_package_name" /\ pc = "returned"

\* the specifier parse_package_name was given
Specifier == call.packages[1]

RECURSIVE LeadingName(_)
\* the leading symbols of a specifier that belong to a name
LeadingName(s) ==
    IF s # <<>> /\ Head(s) \in {"pkg", "Pkg", "1", "_", "-"}
    THEN <<Head(s)>> \o LeadingName(Tail(s))
    ELSE <<>>

\* C15: of a well-formed specifier parse_package_name returns the name, with
\* no bracket and no version operator left; so the name followed by
\* >=1.0.0 and the name alone give the same result.
C15_WellFormedGivesName ==
    (ParseDone /\ Specifier \in WellFormedSpecifiers) =>
        /\ parsed_name = LeadingName(Specifier)
        /\ \A i \in 1..Len(parsed_name) :
              parsed_name[i] \notin {"[", "]", "<", ">", "=", "!", "~", "#"}

\* a name, extras, a version constraint and a comment were parsed
C15_Witness ==
    /\ ParseDone
    /\ Specifier = <<"Pkg", "-", "[", "pkg", ",", "1", "]", ">", "=", "1", ".", "0", ".", "0",
                     " ", "#", " ", "c", ">", "=", "1">>
    /\ parsed_name = <<"Pkg", "-">>

\* the names of a pip uninstall command
UninstalledNames(ran) == SubSeq(ran.argv, 4, Len(ran.argv))

\* C16: the name parse_package_name produces is lower-cased, and no name of
\* a pip uninstall command carries an upper-case letter.
C16_NameIsLowerCased ==
    /\ ParseDone => parsed_name = Lower(parsed_name)
    /\ \A i \in 1..Len(commands) :
          commands[i].argv[2] = <<"uninstall">>
              => \A j \in 1..Len(UninstalledNames(commands[i])) :
                    UninstalledNames(commands[i])[j]
                        = Lower(UninstalledNames(commands[i])[j])

\* the positions of a line at which a version separator starts
SeparatorStarts(line) ==
    {i \in 1..Len(line) :
        \/ line[i] \in {"<", ">"}
        \/ i < Len(line) /\ line[i] \in {"=", "!", "~"} /\ line[i + 1] = "="}

\* the trimmed text before the separator that comes first in the line
BeforeEarliestSeparator(line) ==
    IF SeparatorStarts(line) = {} THEN Trimmed(line)
    ELSE Trimmed(SubSeq(line, 1, SetMin(SeparatorStarts(line)) - 1))

\* C17: of a line the name pattern does not match, parse_package_name
\* returns the trimmed text before the separator at the earliest position,
\* and the whole trimmed line when it holds no separator.
C17_SplitsAtEarliestSeparator ==
    (ParseDone /\ Specifier \in OtherSpecifiers)
        => parsed_name = BeforeEarliestSeparator(Specifier)

\* with one separator in the line the text before it is returned
SplitsAtTheOnlySeparator ==
    (ParseDone /\ Specifier \in OtherSpecifiers
        /\ Cardinality(SeparatorStarts(Specifier)) <= 1)
        => parsed_name = BeforeEarliestSeparator(Specifier)

PipDone ==
    call.op \in {"install_packages", "uninstall_packages"} /\ pc # "start"

\* the pip commands that change the environment
Mutating(ran) == ran.argv[2] \in {<<"install">>, <<"uninstall">>}

NeverMutates == \A i \in 1..Len(commands) : ~Mutating(commands[i])

\* C20 as stated: with the dry-run flag set neither function runs pip
\* install or pip uninstall, and each returns 0.
C20_DryRunAlwaysSucceeds ==
    (PipDone /\ call.dry_run) =>
        NeverMutates /\ pc = "returned" /\ exit_code = 0

\* C20: with the dry-run flag set neither function runs pip install or pip
\* uninstall; install_packages returns 0; uninstall_packages returns 0 when
\* the requirement file was read and pip list succeeded, returns 1 when the
\* file does not exist, and raises otherwise.
C20_DryRunNeverMutates ==
    (PipDone /\ call.dry_run) =>
        /\ NeverMutates
        /\ call.op = "install_packages" => pc = "returned" /\ exit_code = 0
        /\ call.op = "uninstall_packages" =>
              IF ret.status = "FileNotFoundError"
              THEN pc = "returned" /\ exit_code = 1
              ELSE IF ret.status = "ok"
                      /\ \A i \in 1..Len(commands) : commands[i].raised = "none"
              THEN pc = "returned" /\ exit_code = 0
              ELSE pc = "raised"

\* a dry run of uninstall_packages on a file with two installed packages:
\* pip list ran, nothing else, and 0 was returned
C20_Witness ==
    /\ call.op = "uninstall_packages" /\ call.dry_run /\ pc = "returned"
    /\ Len(ret.packages) = 2
    /\ Len(commands) = 1 /\ commands[1].argv = PipList
    /\ exit_code = 0

\* the source scan of the discovery has run
Scanned == call.op = "auto_discover_requirements" /\ Scans # {}

RECURSIVE Components(_)
\* the names a path is made of
Components(path) ==
    IF Slashes(path) = {} THEN <<path>>
    ELSE <<SubSeq(path, 1, SetMin(Slashes(path)) - 1)>>
             \o Components(SubSeq(path, SetMin(Slashes(path)) + 1, Len(path)))

\* the directories a path lies under
DirectoriesOf(path) ==
    LET c == Components(path) IN {c[i] : i \in 1..(Len(c) - 1)}

\* a regular file below the root whose name ends in .py
IsSourceFile(fs, path) ==
    /\ fs[path].kind # "dir"
    /\ path[Len(path)] = ".py"
    /\ <<"..">> \notin DirectoriesOf(path)

\* the names of the deny-list that directories of the trees bear
DenyList == {<<".git">>, <<"__pycache__">>, <<"venv">>, <<"build">>}

RECURSIVE TopLevelName(_)
\* the module name up to its first dot
TopLevelName(module) ==
    IF module = <<>> \/ Head(module) = "." THEN <<>>
    ELSE <<Head(module)>> \o TopLevelName(Tail(module))

\* the top-level names a source that parses imports
ImportSet(file) ==
    {TopLevelName(file.py.imports[i]) :
        i \in {j \in 1..Len(file.py.imports) : file.py.imports[j] # <<>>}}

\* the sources found that can be read and parse
ParsingFiles == {f \in python_files : files[f].kind = "text" /\ files[f].py.ok}

\* C19: a source that cannot be read or parsed never aborts the scan, and
\* the names collected before filtering are the union of the import sets of
\* the sources that parse.
C19_BadSourcesContributeNothing ==
    call.op = "auto_discover_requirements" =>
        /\ pc # "raised"
        /\ Scans # {} => all_imports = UNION {ImportSet(files[f]) : f \in ParsingFiles}

\* an unreadable source, a source that does not parse and a source with
\* imports were scanned
C19_Witness ==
    /\ Scanned
    /\ \E f \in python_files : files[f].kind = "unreadable"
    /\ \E f \in python_files : files[f].kind = "text" /\ ~files[f].py.ok
    /\ all_imports = {<<"requests">>, <<"os">>}

(***************************************************************************)
(* core.py: main with a requirements file, the install and uninstall steps *)
(***************************************************************************)
\* the name tempfile.NamedTemporaryFile(suffix=".txt") gives
TempPath == <<"/", "tmp", "/", "tmp1", ".txt">>

\* core.py lines 115-119 and 143-147: a file system that holds only the
\* temporary file, written as "\n".join(packages)
TempFiles(packages) ==
    (TempPath :> TextFile([i \in 1..Len(packages) |->
                              IF i < Len(packages) THEN packages[i] \o <<"\n">>
                              ELSE packages[i]]))

HandleReturn(code, ran, will_uninstall) ==
    [raised |-> "none", code |-> code, commands |-> ran, announced |-> will_uninstall]

HandleRaise(exception, ran, will_uninstall) ==
    [raised |-> exception, code |-> Running, commands |-> ran,
     announced |-> will_uninstall]

\* core.py lines 158-186
HandleInstall(packages, dry_run, list_outcome, stdout, outcome) ==
    LET c == CheckInstalledPackages(packages, list_outcome, stdout)
    IN  IF c.raised # "none" THEN HandleRaise(c.raised, c.commands, <<>>)
        ELSE IF c.missing_packages = <<>> THEN HandleReturn(0, c.commands, <<>>)
        ELSE LET i == InstallPackages(c.missing_packages, dry_run, outcome)
             IN  IF i.raised # "none"
                 THEN HandleRaise(i.raised, c.commands \o i.commands, <<>>)
                 ELSE HandleReturn(i.code, c.commands \o i.commands, <<>>)

FoundReturn(found_packages, ran) ==
    [raised |-> "none", found_packages |-> found_packages, commands |-> ran]

FoundRaise(exception, ran) ==
    [raised |-> exception, found_packages |-> <<>>, commands |-> ran]

\* uninstaller.py lines 90-113 and 116-166
CheckPackagesToUninstall(fs, requirements_file, list_outcome, stdout) ==
    LET r == ReadRequirements(fs, requirements_file, 1)
    IN  IF r.status # "ok" THEN FoundRaise(r.status, <<>>)
        ELSE IF list_outcome.raised # "none"
        THEN FoundRaise(list_outcome.raised, <<Ran(PipList, list_outcome)>>)
        ELSE FoundReturn(FoundPackages(r.packages, InstalledPackages(stdout)),
                         <<Ran(PipList, list_outcome)>>)

\* core.py lines 101-155: list_outcome and stdout are what the pip list of
\* check_packages_to_uninstall does and prints, list_again and stdout_again
\* those of the pip list of uninstall_packages, outcome what pip uninstall
\* does
HandleUninstall(packages, dry_run, list_outcome, stdout, list_again, stdout_again, outcome) ==
    LET f == CheckPackagesToUninstall(TempFiles(packages), TempPath,
                                      list_outcome, stdout)
    IN  IF f.raised # "none" THEN HandleRaise(f.raised, f.commands, <<>>)
        ELSE IF f.found_packages = <<>> THEN HandleReturn(0, f.commands, <<>>)
        ELSE LET u == UninstallPackages(TempFiles(f.found_packages), TempPath, dry_run,
                                        list_again, InstalledPackages(stdout_again),
                                        outcome)
             IN  IF u.raised # "none"
                 THEN HandleRaise(u.raised, f.commands \o u.commands, f.found_packages)
                 ELSE HandleReturn(u.code, f.commands \o u.commands, f.found_packages)

\* args.output
OutputPath == <<"out", ".txt">>

\* core.py lines 254-258: the packages written one per line
OutputFile(packages) ==
    TextFile([i \in 1..Len(packages) |-> packages[i] \o <<"\n">>])

\* core.py lines 272-288: what main returns after _handle_install or
\* _handle_uninstall returned or raised
HandlerExit(h) == IF h.raised = "none" THEN h.code ELSE ExceptionExit(h.raised)

InitMain ==
    /\ files \in UninstallFiles
    /\ call \in [op : {"main"}, path : {B, Missing}, uninstall : BOOLEAN,
                 dry_run : BOOLEAN, output : {"none", "writable", "unwritable"}]
    /\ listing = <<>>
    /\ pc = "start"
    /\ ret = NoResult
    /\ exit_code = Running
    /\ DiscoveryIdle
    /\ UtilitiesIdle

\* core.py, main, lines 253-263: --output given and open or write fails
MainSaveFails ==
    /\ pc = "reconcile"
    /\ call.output = "unwritable"
    /\ pc' = "exit"
    /\ exit_code' = 1
    /\ UNCHANGED <<files, listing, call, ret, discoveryVars>>
    /\ UNCHANGED <<classifierVars, scanVars, pipVars>>

\* core.py, main, lines 253-288 in install mode: the packages saved when
\* --output is given, _handle_install, and the handlers
MainInstall ==
    /\ pc = "reconcile"
    /\ call.output # "unwritable"
    /\ ~call.uninstall
    /\ files' = IF call.output = "writable"
                THEN (OutputPath :> OutputFile(ret.packages)) @@ files
                ELSE files
    /\ \E list_outcome \in RunOutcomes, stdout \in PipListOutputs,
          outcome \in RunOutcomes :
          LET h == HandleInstall(ret.packages, call.dry_run, list_outcome, stdout,
                                 outcome)
              c == CheckInstalledPackages(ret.packages, list_outcome, stdout)
          IN  /\ commands' = h.commands
              /\ oracle' = Printed(h.commands, <<stdout>>)
              /\ checked' = [missing_packages |-> c.missing_packages,
                             already_installed |-> c.already_installed]
              /\ exit_code' = HandlerExit(h)
    /\ pc' = "exit"
    /\ UNCHANGED <<listing, call, ret, discoveryVars>>
    /\ UNCHANGED <<classifierVars, scanVars, parsed_name, announced>>

\* core.py, main, lines 253-288 in uninstall mode: the packages saved when
\* --output is given, _handle_uninstall, and the handlers
MainUninstall ==
    /\ pc = "reconcile"
    /\ call.output # "unwritable"
    /\ call.uninstall
    /\ files' = IF call.output = "writable"
                THEN (OutputPath :> OutputFile(ret.packages)) @@ files
                ELSE files
    /\ \E list_outcome \in RunOutcomes, stdout \in PipListOutputs,
          list_again \in RunOutcomes, stdout_again \in PipListOutputs,
          outcome \in RunOutcomes :
          LET h == HandleUninstall(ret.packages, call.dry_run, list_outcome, stdout,
                                   list_again, stdout_again, outcome)
          IN  /\ commands' = h.commands
              /\ oracle' = Printed(h.commands, <<stdout, stdout_again>>)
              /\ announced' = h.announced
              /\ exit_code' = HandlerExit(h)
    /\ pc' = "exit"
    /\ UNCHANGED <<listing, call, ret, discoveryVars>>
    /\ UNCHANGED <<classifierVars, scanVars, parsed_name, checked>>

NextMain == MainReadFile \/ MainSaveFails \/ MainInstall \/ MainUninstall

SpecMain == InitMain /\ [][NextMain]_vars

(***************************************************************************)
(* The oracle and the reconciliation                                       *)
(***************************************************************************)
\* pip list printed a line name==version whose name, lower-cased, is name
Listed(stdout, name) ==
    \E i \in 1..Len(stdout) :
        /\ Len(stdout[i]) >= Len(name) + 2
        /\ Lower(SubSeq(stdout[i], 1, Len(name))) = name
        /\ SubSeq(stdout[i], Len(name) + 1, Len(name) + 2) = <<"=", "=">>
        /\ ~Contains(name, <<"=", "=">>)

\* the lower-cased name of a specifier is listed by the first pip list
IsListed(package) ==
    oracle # <<>> /\ Listed(oracle[1], Lower(ParsePackageName(package)))

Elements(s) == {s[i] : i \in 1..Len(s)}

\* the pip uninstall commands run
Uninstalls == SelectSeq(commands, LAMBDA c : c.argv[2] = <<"uninstall">>)

\* uninstall_packages read its list and pip list succeeded
UninstallChecked ==
    /\ call.op = "uninstall_packages"
    /\ pc # "start"
    /\ ret.status = "ok"
    /\ oracle # <<>>

\* the names of the requested specifiers that are listed, in request order
ListedNames ==
    LET requested == SelectSeq(ret.packages, IsListed)
    IN  [i \in 1..Len(requested) |-> ParsePackageName(requested[i])]

\* C23: the arguments of pip uninstall are the parsed names of the requested
\* specifiers whose lower-cased name pip list reports, in request order;
\* when none is reported pip uninstall is not run and the result is 0.
C23_UninstallsOnlyInstalled ==
    UninstallChecked =>
        /\ \A i \in 1..Len(Uninstalls) :
              /\ SubSeq(Uninstalls[i].argv, 1, 3) = <<<<"pip">>, <<"uninstall">>, <<"-y">>>>
              /\ UninstalledNames(Uninstalls[i]) = ListedNames
        /\ Len(Uninstalls) = (IF ListedNames # <<>> /\ ~call.dry_run THEN 1 ELSE 0)
        /\ ListedNames = <<>> => exit_code = 0 /\ pc = "returned"

\* two specifiers requested, one of them installed and handed to pip uninstall
C23_Witness ==
    /\ UninstallChecked
    /\ Len(ret.packages) = 2
    /\ Len(Uninstalls) = 1
    /\ UninstalledNames(Uninstalls[1]) = <<<<"pkg">>>>

\* nothing requested is installed
C23_WitnessNoneInstalled ==
    /\ UninstallChecked
    /\ ret.packages # <<>>
    /\ oracle[1] # <<>>
    /\ ListedNames = <<>>
    /\ ~call.dry_run

CheckDone == call.op = "check_installed_packages" /\ pc = "returned"

\* C24: check_installed_packages puts every input element in exactly one of
\* missing and already_installed, keeps the input order within each, and
\* puts in already_installed the elements whose lower-cased name pip list
\* reports.
C24_PartitionsByOracle ==
    CheckDone =>
        /\ Elements(checked.missing_packages) \cup Elements(checked.already_installed)
              = Elements(call.packages)
        /\ Elements(checked.missing_packages) \cap Elements(checked.already_installed) = {}
        /\ Len(checked.missing_packages) + Len(checked.already_installed)
              = Len(call.packages)
        /\ checked.missing_packages
              = SelectSeq(call.packages,
                          LAMBDA x : x \in Elements(checked.missing_packages))
        /\ checked.already_installed
              = SelectSeq(call.packages,
                          LAMBDA x : x \in Elements(checked.already_installed))
        /\ \A i \in 1..Len(call.packages) :
              call.packages[i] \in Elements(checked.already_installed)
                  <=> IsListed(call.packages[i])

\* one package is missing and one, written in upper case, is installed
C24_Witness ==
    /\ CheckDone
    /\ checked.missing_packages = <<<<"pkg">>>>
    /\ checked.already_installed = <<<<"pkg", "-", "1", ">", "=", "1">>>>

(***************************************************************************)
(* The exit status of main                                                 *)
(***************************************************************************)
MainDone == call.op = "main" /\ pc = "exit"

\* the commands that exited with a non-zero status
FailedCommands == {i \in 1..Len(commands) : commands[i].raised = "CalledProcessError"}

\* C21: when pip install, pip uninstall or pip list exits with a non-zero
\* status c, main returns c.
C21_ExternalStatusIsSurfaced ==
    MainDone => \A i \in FailedCommands : exit_code = commands[i].returncode

\* the status of a failed pip install or pip uninstall is what main returns
ExecutorStatusIsSurfaced ==
    MainDone =>
        \A i \in FailedCommands :
            Mutating(commands[i]) => exit_code = commands[i].returncode

\* after a failed pip list main returns 1, whatever the status of pip list
OracleFailureExitsOne ==
    MainDone =>
        \A i \in FailedCommands : commands[i].argv = PipList => exit_code = 1

\* subprocess.run was interrupted
Interrupted == \E i \in 1..Len(commands) : commands[i].raised = "KeyboardInterrupt"

\* an unrecoverable error: the file could not be read, the packages could not
\* be saved, a command failed or pip could not be started
Unrecoverable ==
    \/ ret.status # "ok"
    \/ (ret.packages # <<>> /\ call.output = "unwritable")
    \/ \E i \in 1..Len(commands) :
          commands[i].raised \in {"CalledProcessError", "FileNotFoundError"}

\* C22: main returns 130 only when the operation was interrupted, and every
\* unrecoverable error gives a non-zero status other than 130.
C22_InterruptStatusIsDistinct ==
    MainDone =>
        /\ exit_code = 130 => Interrupted
        /\ (Unrecoverable /\ ~Interrupted) => exit_code \notin {0, 130}

\* main returns 130 when interrupted or when pip install or pip uninstall
\* exited with 130, and an unrecoverable error never gives 0
InterruptOrExecutorStatus ==
    MainDone =>
        /\ exit_code = 130 =>
              \/ Interrupted
              \/ \E i \in FailedCommands :
                    Mutating(commands[i]) /\ commands[i].returncode = 130
        /\ Interrupted => exit_code = 130
        /\ Unrecoverable => exit_code # 0

(***************************************************************************)
(* The announced and the executed uninstall                                *)
(***************************************************************************)
\* uninstall mode, packages were announced, and uninstall_packages reached
\* pip uninstall
UninstallReached ==
    /\ MainDone
    /\ call.uninstall
    /\ ~call.dry_run
    /\ announced # <<>>
    /\ Len(oracle) = 2

\* C25: the packages handed to pip uninstall are the packages announced,
\* whatever the second pip list reports.
C25_ExecutesWhatWasAnnounced ==
    UninstallReached =>
        /\ Len(Uninstalls) = 1
        /\ Elements(UninstalledNames(Uninstalls[1])) = Elements(PackageNames(announced))

\* the announced packages the second pip list still reports
StillListed ==
    SelectSeq(announced,
              LAMBDA x : Listed(oracle[2], Lower(ParsePackageName(x))))

\* what is handed to pip uninstall are the announced packages that the
\* second pip list still reports; with the same report both lists agree
ExecutesAnnouncedStillInstalled ==
    UninstallReached =>
        /\ \A i \in 1..Len(Uninstalls) :
              UninstalledNames(Uninstalls[i]) = PackageNames(StillListed)
        /\ Len(Uninstalls) = (IF StillListed = <<>> THEN 0 ELSE 1)
        /\ oracle[1] = oracle[2] => StillListed = announced

(***************************************************************************)
(* The files strategy 1 reads                                              *)
(***************************************************************************)
\* the lines of a file, trimmed
TrimmedLines(f) == {Strip(f.lines[i]) : i \in 1..Len(f.lines)}

\* the packages auto_discover_requirements returned
FoundNames == {found.packages[i][1] : i \in 1..Len(found.packages)}

\* C26: every file strategy 1 reads is a requirements*.txt file or the
\* project manifest, and no line of setup.py is returned as a package.
C26_ReadsOnlyRequirementLists ==
    call.op = "auto_discover_requirements" =>
        /\ \A i \in Reads :
              IsRequirementList(tried[i].path) \/ tried[i].path = PyProject
        /\ (DiscoverDone /\ found.method # ImportAnalysis /\ SetupPy \in DOMAIN files)
              => FoundNames \cap TrimmedLines(files[SetupPy]) = {}

\* setup.py is read, line by line, when the root has no requirements*.txt
\* and no manifest, and then its lines are the packages returned
SetupScriptReadWhenAlone ==
    call.op = "auto_discover_requirements" =>
        \A i \in Reads :
            /\ IsRequirementList(tried[i].path) \/ tried[i].path \in {PyProject, SetupPy}
            /\ tried[i].path = SetupPy =>
                  /\ \A p \in DOMAIN files : ~IsRequirementList(p) /\ p # PyProject
                  /\ DiscoverDone
                  /\ FoundNames = TrimmedLines(files[SetupPy])

====
